---- MODULE Spec2Model ----
(***************************************************************************)
(* Model of the nuttx-rs device wrappers:                                  *)
(*   src/src/input/touchscreen.rs  (TouchPoint, TouchSample, TouchScreen)  *)
(*   src/src/video/fb.rs           (FrameBuffer and its info structures)   *)
(* The operating system primitives open/read/ioctl/close are the           *)
(* environment: their return values and the bytes a driver writes are      *)
(* drawn from bounded sets.                                                *)
(***************************************************************************)
EXTENDS Integers, Sequences, FiniteSets, TLC

(* ------------------------------ bounds -------------------------------- *)
\* successful opens of each wrapper type in one behaviour
MaxOpens == 2
\* touch records the driver queues for later reads
MaxPending == 1
\* items in the bindings file the kconfig macro reads
MaxItems == 2
\* options listed in one kconfig attribute
MaxOptions == 2

(* ------------------------- program constants --------------------------- *)
\* touchscreen.rs:128-142, 1 << 0 .. 1 << 7
TOUCH_DOWN == 1
TOUCH_MOVE == 2
TOUCH_UP == 4
TOUCH_ID_VALID == 8
TOUCH_POS_VALID == 16
TOUCH_PRESSURE_VALID == 32
TOUCH_SIZE_VALID == 64
TOUCH_GESTURE_VALID == 128
\* fb.rs:41,46,51: 0x2801, 0x2802, 0x2807
FBIOGET_VIDEOINFO == 10241
FBIOGET_PLANEINFO == 10242
FBIO_UPDATE == 10247
\* libc::EIO, used at touchscreen.rs:224
EIO == 5

(* ----------------------- integer widths (casts) ------------------------ *)
\* `bytes_read as i32` (touchscreen.rs:222) and `result as libc::c_int`
\* (fb.rs:199).  read(2) and ioctl(2) return values in -4095 .. count, all of
\* which a 32-bit integer holds, so the cast keeps the value.
AsI32(v) == v

(* --------------------- repr(C) layout of the records ------------------- *)
\* size in bytes of a primitive type; its alignment is its size
TypeSize(t) ==
    CASE t = "u8" -> 1
      [] t = "i16" -> 2
      [] t = "u16" -> 2
      [] t = "i32" -> 4
      [] t = "u64" -> 8

Signed(t) == t \in {"i16", "i32"}

Max(a, b) == IF a >= b THEN a ELSE b

AlignUp(o, a) == ((o + a - 1) \div a) * a

\* struct TouchPoint, fields in declaration order
TouchPointFields ==
    << <<"id", "u8">>, <<"flags", "u8">>, <<"x", "i16">>, <<"y", "i16">>,
       <<"h", "i16">>, <<"w", "i16">>, <<"gesture", "u16">>,
       <<"pressure", "u16">>, <<"timestamp", "u64">> >>

\* offset of the k-th field of a repr(C) struct whose first field is at base
RECURSIVE FieldOffset(_, _, _)
FieldOffset(fields, k, base) ==
    IF k = 1
    THEN AlignUp(base, TypeSize(fields[1][2]))
    ELSE AlignUp(FieldOffset(fields, k - 1, base) + TypeSize(fields[k - 1][2]),
                 TypeSize(fields[k][2]))

RECURSIVE StructAlign(_, _)
StructAlign(fields, k) ==
    IF k = 0 THEN 1 ELSE Max(TypeSize(fields[k][2]), StructAlign(fields, k - 1))

TouchPointAlign == StructAlign(TouchPointFields, Len(TouchPointFields))

\* offset of `point` inside struct TouchSample: after npoints: c_int
PointBase == AlignUp(TypeSize("i32"), TouchPointAlign)

\* size_of::<TouchSample>()
SizeOfTouchSample ==
    LET n == Len(TouchPointFields)
    IN  AlignUp(FieldOffset(TouchPointFields, n, PointBase)
                  + TypeSize(TouchPointFields[n][2]),
                Max(TypeSize("i32"), TouchPointAlign))

Bytes == 0 .. 255

RECURSIVE Pow256(_)
Pow256(i) == IF i = 0 THEN 1 ELSE 256 * Pow256(i - 1)

\* byte i of the two's-complement little-endian image of v
ByteOf(v, i) ==
    IF i <= 2 THEN (v \div Pow256(i)) % 256
    ELSE IF i = 3 THEN ((v \div Pow256(2)) \div 256) % 256
    ELSE IF v < 0 THEN 255 ELSE 0

\* value of the n bytes of mem starting at off, read as type t
RECURSIVE UnsignedAt(_, _, _)
UnsignedAt(mem, off, n) ==
    IF n = 0 THEN 0
    ELSE UnsignedAt(mem, off, n - 1)
         + (IF mem[off + n - 1] = 0 THEN 0 ELSE mem[off + n - 1] * Pow256(n - 1))

RECURSIVE ComplementAt(_, _, _)
ComplementAt(mem, off, n) ==
    IF n = 0 THEN 0
    ELSE ComplementAt(mem, off, n - 1)
         + (IF mem[off + n - 1] = 255 THEN 0
            ELSE (mem[off + n - 1] - 255) * Pow256(n - 1))

ValueAt(mem, off, t) ==
    LET n == TypeSize(t)
    IN  IF Signed(t) /\ mem[off + n - 1] >= 128
        THEN ComplementAt(mem, off, n) - 1
        ELSE UnsignedAt(mem, off, n)

NumFields == Len(TouchPointFields)

\* offset, size and type of every field of `point` inside TouchSample
PointLayout ==
    [k \in 1 .. NumFields |->
        [name |-> TouchPointFields[k][1],
         type |-> TouchPointFields[k][2],
         off |-> FieldOffset(TouchPointFields, k, PointBase),
         size |-> TypeSize(TouchPointFields[k][2])]]

\* the field of `point` byte b of a TouchSample belongs to, 0 for padding
FieldAtByte ==
    [b \in 0 .. SizeOfTouchSample - 1 |->
        IF \E k \in 1 .. NumFields :
               PointLayout[k].off <= b /\ b < PointLayout[k].off + PointLayout[k].size
        THEN CHOOSE k \in 1 .. NumFields :
               PointLayout[k].off <= b /\ b < PointLayout[k].off + PointLayout[k].size
        ELSE 0]

\* the memory image of a TouchSample value; padding bytes take the value pad
SampleBytes(s, pad) ==
    [b \in 0 .. SizeOfTouchSample - 1 |->
        IF b < TypeSize("i32") THEN ByteOf(s.npoints, b)
        ELSE IF FieldAtByte[b] # 0
        THEN ByteOf(s.point[PointLayout[FieldAtByte[b]].name],
                    b - PointLayout[FieldAtByte[b]].off)
        ELSE pad]

\* the TouchSample value a memory image holds
SampleOf(mem) ==
    [npoints |-> ValueAt(mem, 0, "i32"),
     point |-> [f \in {PointLayout[k].name : k \in 1 .. NumFields} |->
                   LET k == CHOOSE j \in 1 .. NumFields : PointLayout[j].name = f
                   IN  ValueAt(mem, PointLayout[k].off, PointLayout[k].type)]]

(* ------------------------- TouchPoint predicates ----------------------- *)
\* the `&` of two u8 values
RECURSIVE BitAnd(_, _)
BitAnd(a, b) ==
    IF a = 0 \/ b = 0 THEN 0
    ELSE (a % 2) * (b % 2) + 2 * BitAnd(a \div 2, b \div 2)

\* is_pos_valid testing the pressure bit instead of the position bit
is_pos_valid_swapped(p) == BitAnd(p.flags, TOUCH_PRESSURE_VALID) # 0

is_pos_valid(p) == BitAnd(p.flags, TOUCH_POS_VALID) # 0
is_touch_down(p) == BitAnd(p.flags, TOUCH_DOWN) # 0
is_touch_move(p) == BitAnd(p.flags, TOUCH_MOVE) # 0
is_touch_up(p) == BitAnd(p.flags, TOUCH_UP) # 0
is_id_valid(p) == BitAnd(p.flags, TOUCH_ID_VALID) # 0
is_pressure_valid(p) == BitAnd(p.flags, TOUCH_PRESSURE_VALID) # 0
is_size_valid(p) == BitAnd(p.flags, TOUCH_SIZE_VALID) # 0
is_gesture_valid(p) == BitAnd(p.flags, TOUCH_GESTURE_VALID) # 0

PredicateNames ==
    {"is_pos_valid", "is_touch_down", "is_touch_move", "is_touch_up",
     "is_id_valid", "is_pressure_valid", "is_size_valid", "is_gesture_valid"}

(* ------------------------------ values --------------------------------- *)
\* TouchPoint::default()
TouchPointDefault ==
    [id |-> 0, flags |-> 0, x |-> 0, y |-> 0, h |-> 0, w |-> 0,
     gesture |-> 0, pressure |-> 0, timestamp |-> 0]

\* the buffer read_sample starts from
SampleInit == [npoints |-> 0, point |-> TouchPointDefault]

\* VideoInfo::default(), PlaneInfo::default()
VideoInfoDefault == [fmt |-> 0, xres |-> 0, yres |-> 0, nplanes |-> 0]

PlaneInfoDefault ==
    [fbmem |-> 0, fblen |-> 0, stride |-> 0, display |-> 0, bpp |-> 0,
     xres_virtual |-> 0, yres_virtual |-> 0, xoffset |-> 0, yoffset |-> 0]

\* Result<T, i32>
Ok(v) == [ok |-> TRUE, err |-> 0, val |-> <<v>>]
Err(e) == [ok |-> FALSE, err |-> e, val |-> <<>>]
Unit == "()"

(* ---------------------------- environment ------------------------------ *)
\* records a touchscreen driver may hold for the next read
TouchRecords ==
    { SampleInit,
      [npoints |-> 1,
       point |-> [id |-> 1, flags |-> 25, x |-> 120, y |-> -3, h |-> 0, w |-> 0,
                  gesture |-> 0, pressure |-> 0, timestamp |-> 1000000]],
      [npoints |-> 2,
       point |-> [id |-> 255, flags |-> 255, x |-> -32768, y |-> 32767, h |-> 9,
                  w |-> -1, gesture |-> 5, pressure |-> 65535, timestamp |-> 77]] }

\* negative values open(2) returns on failure (-1, -ENOENT)
OpenErrors == {-1, -2}
\* negative values read(2) returns when a non-blocking device has no data
\* (-1 with errno EAGAIN, or -EAGAIN)
WouldBlockReturns == {-1, -11}
\* negative values read(2) returns on another failure (-1, -EIO)
ReadErrors == {-1, -5}
\* byte counts below the record size
ShortCounts == {0, 10, SizeOfTouchSample - 1}
\* values ioctl(2) returns
IoctlErrors == {-1, -5}
IoctlSuccess == {0, 1}

\* structures a framebuffer driver may write
VideoInfos ==
    { [fmt |-> 11, xres |-> 320, yres |-> 240, nplanes |-> 1],
      [fmt |-> 11, xres |-> 65535, yres |-> 1, nplanes |-> 255] }
PlaneInfos ==
    { [fbmem |-> 4096, fblen |-> 153600, stride |-> 640, display |-> 0, bpp |-> 16,
       xres_virtual |-> 320, yres_virtual |-> 240, xoffset |-> 0, yoffset |-> 0] }
\* Area values a caller passes
Areas == { [x |-> 0, y |-> 0, w |-> 0, h |-> 0],
           [x |-> 10, y |-> 20, w |-> 300, h |-> 65535] }

\* descriptor numbers open(2) hands out
Descriptors == {0, 3}

(* ------------------------------- state --------------------------------- *)
VARIABLES
    fb_update,   \* cfg(feature = "fb_update"), fixed when the crate is built
    fdtab,       \* descriptors the operating system has open
    dev_data,    \* touch records queued in the driver, oldest first
    wrappers,    \* per wrapper type, the value its owner holds and its history
    last,        \* the last call: its inputs, system calls and result
    pt,          \* a TouchPoint the predicates are applied to
    pred,        \* the last predicate applied to pt and what it returned
    os,          \* what the operating system saw: opens, closes, bad closes
    kc           \* one expansion of the kconfig attribute macro

vars == <<fb_update, fdtab, dev_data, wrappers, last, pt, pred, os, kc>>

Types == {"TouchScreen", "FrameBuffer"}

\* own: "none" before construction, "live" while the owner holds the value,
\* "moved" after the owner moved it into an explicit drop, "ended" after the
\* owner's scope ended.  gen counts the values constructed; closes counts the
\* close calls on the current value's descriptor, after the system calls
\* issued through the value after its first close.
NoWrapper == [gen |-> 0, own |-> "none", fd |-> -1, closes |-> 0, after |-> 0]

NoCall ==
    [op |-> "none", type |-> "none", gen |-> 0, fd |-> -1, ret |-> 0, nsys |-> 0,
     cmd |-> 0, nodata |-> FALSE, dev |-> <<>>, buf |-> <<>>, res |-> Err(0)]

NoPred == [name |-> "none", result |-> FALSE]

\* opens: open calls that returned a descriptor; closes: close calls;
\* bad: a close call was given a value that is no open descriptor
NoOs == [opens |-> 0, closes |-> 0, bad |-> FALSE]

\* no expansion of the macro took place
NoKconfig == [bindings |-> <<>>, attr |-> <<>>, done |-> FALSE, emitted |-> FALSE]

Init ==
    /\ fb_update \in BOOLEAN
    /\ fdtab = {}
    /\ dev_data = <<>>
    /\ wrappers = [t \in Types |-> NoWrapper]
    /\ last = NoCall
    /\ pt = TouchPointDefault
    /\ pred = NoPred
    /\ os = NoOs
    /\ kc = NoKconfig

(* ----------------------- operating system calls ------------------------ *)
\* values open(2) may return: a failure, or a descriptor not in use
OpenReturns == OpenErrors \cup (Descriptors \ fdtab)

\* memory images of the records a driver may hold
RecordImage == [r \in TouchRecords |-> [pad \in {0, 255} |-> SampleBytes(r, pad)]]

\* what read(2) may do on the touch device: the value returned and the
\* memory image of the caller's buffer afterwards
ReadOutcomes(mem, count) ==
    IF dev_data = <<>>
    THEN {[ret |-> r, mem |-> mem] : r \in WouldBlockReturns}
    ELSE {[ret |-> r, mem |-> mem] : r \in ReadErrors}
         \cup
         {[ret |-> n,
           mem |-> [b \in DOMAIN mem |->
                      IF b < n THEN RecordImage[Head(dev_data)][pad][b] ELSE mem[b]]] :
            n \in {c \in ShortCounts \cup {SizeOfTouchSample} : c <= count},
            pad \in {0, 255}}

\* what ioctl(2) may do on the framebuffer device: the value returned and
\* the structure behind the argument pointer afterwards
IoctlOutcomes(cmd, arg) ==
    {[ret |-> r, arg |-> arg] : r \in IoctlErrors}
    \cup
    (CASE cmd = FBIOGET_VIDEOINFO ->
            {[ret |-> r, arg |-> v] : r \in IoctlSuccess, v \in VideoInfos \cup {arg}}
       [] cmd = FBIOGET_PLANEINFO ->
            {[ret |-> r, arg |-> v] : r \in IoctlSuccess, v \in PlaneInfos \cup {arg}}
       [] cmd = FBIO_UPDATE ->
            {[ret |-> r, arg |-> arg] : r \in IoctlSuccess}
       [] OTHER -> {})

\* the descriptor table after a sequence of system calls
RECURSIVE AfterCalls(_, _)
AfterCalls(tab, calls) ==
    IF calls = <<>> THEN tab
    ELSE AfterCalls(IF calls[1].call = "close" THEN tab \ {calls[1].fd} ELSE tab,
                    Tail(calls))

\* what the operating system saw after a sequence of system calls issued
\* while the descriptor table was tab
RECURSIVE OsAfterCalls(_, _, _)
OsAfterCalls(o, tab, calls) ==
    IF calls = <<>> THEN o
    ELSE IF calls[1].call = "close"
    THEN OsAfterCalls([o EXCEPT !.closes = @ + 1,
                                !.bad = @ \/ calls[1].fd \notin tab],
                      tab \ {calls[1].fd}, Tail(calls))
    ELSE OsAfterCalls(o, tab, Tail(calls))

NumClose(calls) == Cardinality({i \in DOMAIN calls : calls[i].call = "close"})

\* the wrapper of type t after calls were issued through it
Issued(w, calls) ==
    [w EXCEPT !.closes = @ + NumClose(calls),
              !.after = IF w.closes > 0 THEN @ + Len(calls) ELSE @]

\* a wrapper type's owner may construct a value: it holds none
MayOpen(t) == wrappers[t].own \in {"none", "ended"}

\* the owner of type t receives the result of its constructor
Constructed(t, res) ==
    IF res.ok
    THEN [wrappers EXCEPT ![t] = [gen |-> @.gen + 1, own |-> "live",
                                  fd |-> res.val[1].fd, closes |-> 0, after |-> 0]]
    ELSE wrappers

OpenStep(t, name, fd, res) ==
    /\ MayOpen(t)
    /\ res.ok => wrappers[t].gen < MaxOpens
    /\ fdtab' = IF fd >= 0 THEN fdtab \cup {fd} ELSE fdtab
    /\ os' = IF fd >= 0 THEN [os EXCEPT !.opens = @ + 1] ELSE os
    /\ wrappers' = Constructed(t, res)
    /\ last' = [NoCall EXCEPT !.op = name, !.type = t, !.gen = wrappers'[t].gen,
                              !.ret = fd, !.nsys = 1, !.res = res]
    /\ UNCHANGED <<fb_update, dev_data, pt, pred, kc>>

(* ------------------------------ TouchScreen ---------------------------- *)
\* TouchScreen::open constructing the wrapper whatever open returned
TouchScreen_open_ret_always(fd) == Ok([fd |-> fd])

\* TouchScreen::open rejecting descriptor 0 as well
TouchScreen_open_ret_zero(fd) == IF fd <= 0 THEN Err(fd) ELSE Ok([fd |-> fd])

\* TouchScreen::open, after the open call returned fd
TouchScreen_open_ret(fd) == IF fd < 0 THEN Err(fd) ELSE Ok([fd |-> fd])

TouchScreen_open ==
    \E fd \in OpenReturns :
        OpenStep("TouchScreen", "TouchScreen::open", fd, TouchScreen_open_ret(fd))

\* the read call read_sample issues
read_sample_call(w) == [call |-> "read", fd |-> w.fd, count |-> SizeOfTouchSample]

\* read_sample without the size check
read_sample_ret_partial(bytes_read, sample) ==
    IF bytes_read < 0 THEN Err(AsI32(bytes_read)) ELSE Ok(sample)

\* read_sample returning the untouched buffer when the read fails
read_sample_ret_empty(bytes_read, sample) ==
    IF bytes_read < 0 THEN Ok(sample)
    ELSE IF bytes_read # SizeOfTouchSample THEN Err(-EIO)
    ELSE Ok(sample)

\* read_sample reporting every failed read as an incomplete read
read_sample_ret_eio(bytes_read, sample) ==
    IF bytes_read # SizeOfTouchSample THEN Err(-EIO) ELSE Ok(sample)

\* read_sample clamping npoints to the one point the array holds
read_sample_ret_clamped(bytes_read, sample) ==
    IF bytes_read < 0 THEN Err(AsI32(bytes_read))
    ELSE IF bytes_read # SizeOfTouchSample THEN Err(-EIO)
    ELSE Ok([sample EXCEPT !.npoints = IF @ > 1 THEN 1 ELSE @])

\* read_sample, after the read call returned bytes_read and left sample
read_sample_ret(bytes_read, sample) ==
    IF bytes_read < 0 THEN Err(AsI32(bytes_read))
    ELSE IF bytes_read # SizeOfTouchSample THEN Err(-EIO)
    ELSE Ok(sample)

\* a method may be called on the value of type t: its owner holds it
Live(t) == wrappers[t].own = "live"

read_sample ==
    /\ Live("TouchScreen")
    /\ LET w == wrappers["TouchScreen"]
           c == read_sample_call(w)
       IN  \E out \in ReadOutcomes(SampleBytes(SampleInit, 0), c.count) :
               LET sample == SampleOf(out.mem)
               IN  /\ last' = [NoCall EXCEPT !.op = "read_sample", !.type = "TouchScreen",
                                             !.gen = w.gen, !.fd = c.fd,
                                             !.ret = out.ret, !.nsys = 1,
                                             !.nodata = (dev_data = <<>>),
                                             !.dev = IF dev_data = <<>> THEN <<>>
                                                     ELSE <<Head(dev_data)>>,
                                             !.buf = <<sample>>,
                                             !.res = read_sample_ret(out.ret, sample)]
                   /\ dev_data' = IF out.ret > 0 THEN Tail(dev_data) ELSE dev_data
                   /\ wrappers' = [wrappers EXCEPT !["TouchScreen"] = Issued(w, <<c>>)]
                   /\ UNCHANGED <<fb_update, fdtab, pt, pred, os, kc>>

\* a Drop implementation that does not close the descriptor
TouchScreen_drop_none(w) == <<>>

\* impl Drop for TouchScreen: the system calls drop issues
TouchScreen_drop(w) == <<[call |-> "close", fd |-> w.fd]>>

\* the touchscreen driver receives a record
TouchEvent ==
    /\ Len(dev_data) < MaxPending
    /\ \E r \in TouchRecords : dev_data' = Append(dev_data, r)
    /\ UNCHANGED <<fb_update, fdtab, wrappers, last, pt, pred, os, kc>>

(* ------------------------------ FrameBuffer ---------------------------- *)
\* FrameBuffer::new, after the open call returned fd
FrameBuffer_new_ret(fd) == IF fd < 0 THEN Err(fd) ELSE Ok([fd |-> fd])

FrameBuffer_new ==
    \E fd \in OpenReturns :
        OpenStep("FrameBuffer", "FrameBuffer::new", fd, FrameBuffer_new_ret(fd))

\* get_plane_info issuing the command code of get_video_info
get_plane_info_call_video(w) ==
    [call |-> "ioctl", fd |-> w.fd, cmd |-> FBIOGET_VIDEOINFO, arg |-> PlaneInfoDefault]

\* the ioctl calls the three operations issue
get_video_info_call(w) ==
    [call |-> "ioctl", fd |-> w.fd, cmd |-> FBIOGET_VIDEOINFO, arg |-> VideoInfoDefault]
get_plane_info_call(w) ==
    [call |-> "ioctl", fd |-> w.fd, cmd |-> FBIOGET_PLANEINFO, arg |-> PlaneInfoDefault]
update_area_call(w, area) ==
    [call |-> "ioctl", fd |-> w.fd, cmd |-> FBIO_UPDATE, arg |-> area]

\* get_plane_info taking every non-zero return for a failure
get_plane_info_ret_nonzero(result, info) == IF result # 0 THEN Err(result) ELSE Ok(info)

\* the three operations, after the ioctl call returned result and left info
get_video_info_ret(result, info) == IF result < 0 THEN Err(result) ELSE Ok(info)
get_plane_info_ret(result, info) == IF result < 0 THEN Err(result) ELSE Ok(info)
update_area_ret(result) == IF result < 0 THEN Err(AsI32(result)) ELSE Ok(Unit)

\* a framebuffer operation that gives up its descriptor when the call fails
IoctlStep_invalidate(name, c, out, res) ==
    LET w == wrappers["FrameBuffer"]
    IN  /\ last' = [NoCall EXCEPT !.op = name, !.type = "FrameBuffer", !.gen = w.gen,
                                  !.fd = c.fd, !.cmd = c.cmd,
                                  !.ret = out.ret, !.nsys = 1, !.dev = <<out.arg>>,
                                  !.buf = <<c.arg>>, !.res = res]
        /\ wrappers' = [wrappers EXCEPT !["FrameBuffer"] =
                           [Issued(w, <<c>>) EXCEPT !.fd = IF out.ret < 0 THEN -1 ELSE @]]
        /\ UNCHANGED <<fb_update, fdtab, dev_data, pt, pred, os, kc>>

\* one framebuffer operation that issues the ioctl call c
IoctlStep(name, c, out, res) ==
    LET w == wrappers["FrameBuffer"]
    IN  /\ last' = [NoCall EXCEPT !.op = name, !.type = "FrameBuffer", !.gen = w.gen,
                                  !.fd = c.fd, !.cmd = c.cmd,
                                  !.ret = out.ret, !.nsys = 1, !.dev = <<out.arg>>,
                                  !.buf = <<c.arg>>, !.res = res]
        /\ wrappers' = [wrappers EXCEPT !["FrameBuffer"] = Issued(w, <<c>>)]
        /\ UNCHANGED <<fb_update, fdtab, dev_data, pt, pred, os, kc>>

get_video_info ==
    /\ Live("FrameBuffer")
    /\ LET c == get_video_info_call(wrappers["FrameBuffer"])
       IN  \E out \in IoctlOutcomes(c.cmd, c.arg) :
               IoctlStep("get_video_info", c, out, get_video_info_ret(out.ret, out.arg))

get_plane_info ==
    /\ Live("FrameBuffer")
    /\ LET c == get_plane_info_call(wrappers["FrameBuffer"])
       IN  \E out \in IoctlOutcomes(c.cmd, c.arg) :
               IoctlStep("get_plane_info", c, out, get_plane_info_ret(out.ret, out.arg))

\* #[cfg(feature = "fb_update")]
update_area ==
    /\ fb_update
    /\ Live("FrameBuffer")
    /\ \E area \in Areas :
           LET c == update_area_call(wrappers["FrameBuffer"], area)
           IN  \E out \in IoctlOutcomes(c.cmd, c.arg) :
                   IoctlStep("update_area", c, out, update_area_ret(out.ret))

\* update_area without fb_update issuing the ioctl all the same
update_area_off_calls_ioctl(w, area) == <<update_area_call(w, area)>>

\* #[cfg(not(feature = "fb_update"))]: the system calls update_area issues
update_area_off_calls(w, area) == <<>>

\* #[cfg(not(feature = "fb_update"))]: what update_area returns
update_area_off_ret(area) == Ok(Unit)

update_area_off ==
    /\ ~fb_update
    /\ Live("FrameBuffer")
    /\ \E area \in Areas :
           LET w == wrappers["FrameBuffer"]
               calls == update_area_off_calls(w, area)
           IN  /\ last' = [NoCall EXCEPT !.op = "update_area", !.type = "FrameBuffer",
                                         !.gen = w.gen,
                                         !.fd = IF calls = <<>> THEN -1 ELSE calls[1].fd,
                                         !.cmd = IF calls = <<>> THEN 0 ELSE calls[1].cmd,
                                         !.nsys = Len(calls),
                                         !.buf = <<area>>, !.res = update_area_off_ret(area)]
               /\ wrappers' = [wrappers EXCEPT !["FrameBuffer"] = Issued(w, calls)]
    /\ UNCHANGED <<fb_update, fdtab, dev_data, pt, pred, os, kc>>

\* impl Drop for FrameBuffer: the system calls drop issues
FrameBuffer_drop(w) == <<[call |-> "close", fd |-> w.fd]>>

(* ------------------------- ownership of a wrapper ---------------------- *)
\* the Drop implementation of a wrapper's type
DropOf(t, w) == IF t = "TouchScreen" THEN TouchScreen_drop(w) ELSE FrameBuffer_drop(w)

\* a release that closes the descriptor and leaves the value with its owner
RunDrop_by_ref(t, own) ==
    LET calls == DropOf(t, wrappers[t])
    IN  /\ fdtab' = AfterCalls(fdtab, calls)
        /\ os' = OsAfterCalls(os, fdtab, calls)
        /\ wrappers' = [wrappers EXCEPT ![t] = Issued(@, calls)]
        /\ last' = [NoCall EXCEPT !.op = "drop", !.type = t, !.gen = wrappers[t].gen,
                                  !.fd = wrappers[t].fd, !.nsys = Len(calls)]
        /\ UNCHANGED <<fb_update, dev_data, pt, pred, kc>>

\* the value of type t is dropped: its Drop implementation runs
RunDrop(t, own) ==
    LET calls == DropOf(t, wrappers[t])
    IN  /\ fdtab' = AfterCalls(fdtab, calls)
        /\ os' = OsAfterCalls(os, fdtab, calls)
        /\ wrappers' = [wrappers EXCEPT ![t] = [Issued(@, calls) EXCEPT !.own = own]]
        /\ last' = [NoCall EXCEPT !.op = "drop", !.type = t, !.gen = wrappers[t].gen,
                                  !.fd = wrappers[t].fd, !.nsys = Len(calls)]
        /\ UNCHANGED <<fb_update, dev_data, pt, pred, kc>>

\* the owner releases the value explicitly (moves it into drop) while its
\* scope goes on
Release(t) ==
    /\ wrappers[t].own = "live"
    /\ RunDrop(t, "moved")

\* the owner's scope ends: a value still held is dropped, a moved one is not
ScopeEnd(t) ==
    \/ /\ wrappers[t].own = "live"
       /\ RunDrop(t, "ended")
    \/ /\ wrappers[t].own = "moved"
       /\ wrappers' = [wrappers EXCEPT ![t].own = "ended"]
       /\ last' = [NoCall EXCEPT !.op = "scope_end", !.type = t, !.gen = wrappers[t].gen]
       /\ UNCHANGED <<fb_update, fdtab, dev_data, pt, pred, os, kc>>

(* ---------------------------- specification ---------------------------- *)
Next ==
    \/ TouchScreen_open
    \/ FrameBuffer_new
    \/ TouchEvent
    \/ read_sample
    \/ get_video_info
    \/ get_plane_info
    \/ update_area
    \/ update_area_off
    \/ \E t \in Types : Release(t)
    \/ \E t \in Types : ScopeEnd(t)

Spec == Init /\ [][Next]_vars

(* ------------------ the predicates on every flag byte ------------------- *)
ApplyPredicate(name, p) ==
    CASE name = "is_pos_valid" -> is_pos_valid(p)
      [] name = "is_touch_down" -> is_touch_down(p)
      [] name = "is_touch_move" -> is_touch_move(p)
      [] name = "is_touch_up" -> is_touch_up(p)
      [] name = "is_id_valid" -> is_id_valid(p)
      [] name = "is_pressure_valid" -> is_pressure_valid(p)
      [] name = "is_size_valid" -> is_size_valid(p)
      [] name = "is_gesture_valid" -> is_gesture_valid(p)

InitFlags ==
    /\ fb_update = FALSE
    /\ fdtab = {}
    /\ dev_data = <<>>
    /\ wrappers = [t \in Types |-> NoWrapper]
    /\ last = NoCall
    /\ pt \in {[TouchPointDefault EXCEPT !.flags = f] : f \in Bytes}
    /\ pred = NoPred
    /\ os = NoOs
    /\ kc = NoKconfig

\* a predicate is called on pt: it takes &self and returns a bool
CallPredicate ==
    /\ \E name \in PredicateNames :
           pred' = [name |-> name, result |-> ApplyPredicate(name, pt)]
    /\ pt' = pt
    /\ UNCHANGED <<fb_update, fdtab, dev_data, wrappers, last, os, kc>>

NextFlags == CallPredicate

SpecFlags == InitFlags /\ [][NextFlags]_vars

(* ------------------------ the kconfig attribute ------------------------ *)
\* sequences over S of length at most n
SeqsUpTo(S, n) == UNION {[1 .. k -> S] : k \in 0 .. n}

OptionNames == {"CONFIG_A", "CONFIG_B"}

\* items of the bindings file: a const whose expression is an integer
\* literal, a const with another expression (a byte string, a negated
\* number), or an item that is no const
BindingItems ==
    {[item |-> "const", name |-> n, lit |-> "int", value |-> v] :
        n \in OptionNames, v \in {0, 1, 2}}
    \cup {[item |-> "const", name |-> n, lit |-> "other", value |-> 0] : n \in OptionNames}
    \cup {[item |-> "static", name |-> n, lit |-> "int", value |-> 1] : n \in OptionNames}

\* a bindings file: Rust allows one const of a name in a module
BindingFiles ==
    {b \in SeqsUpTo(BindingItems, MaxItems) :
        \A i, j \in DOMAIN b :
            (i # j /\ b[i].item = "const" /\ b[j].item = "const") => b[i].name # b[j].name}

\* struct KconfigOption { name, value }
KconfigOptions == {[name |-> n, value |-> v] : n \in OptionNames, v \in {"y", "n"}}

\* find_kconfig_option: the first const of that name, from item i on
RECURSIVE FindFrom(_, _, _)
FindFrom(bindings_ast, option_name, i) ==
    IF i > Len(bindings_ast) THEN <<>>
    ELSE IF bindings_ast[i].item = "const" /\ bindings_ast[i].name = option_name
    THEN <<bindings_ast[i]>>
    ELSE FindFrom(bindings_ast, option_name, i + 1)

find_kconfig_option(bindings_ast, option_name) == FindFrom(bindings_ast, option_name, 1)

\* the loop of kconfig over the options from option i on: include_item
RECURSIVE IncludeFrom(_, _, _)
IncludeFrom(bindings_ast, options, i) ==
    IF i > Len(options) THEN TRUE
    ELSE LET expected_value == options[i].value
             found == find_kconfig_option(bindings_ast, options[i].name)
         IN  IF found # <<>>
             THEN IF expected_value = "n" THEN FALSE
                  ELSE IF found[1].lit = "int"
                  THEN IF expected_value = "y" /\ found[1].value = 1
                       THEN IncludeFrom(bindings_ast, options, i + 1)
                       ELSE FALSE
                  ELSE IncludeFrom(bindings_ast, options, i + 1)
             ELSE IF expected_value # "n" THEN FALSE
                  ELSE IncludeFrom(bindings_ast, options, i + 1)

\* kconfig: whether the decorated item is emitted
kconfig(attr, bindings_ast) == IncludeFrom(bindings_ast, attr, 1)

InitKconfig ==
    /\ fb_update = FALSE
    /\ fdtab = {}
    /\ dev_data = <<>>
    /\ wrappers = [t \in Types |-> NoWrapper]
    /\ last = NoCall
    /\ pt = TouchPointDefault
    /\ pred = NoPred
    /\ os = NoOs
    /\ kc \in {[bindings |-> b, attr |-> a, done |-> FALSE, emitted |-> FALSE] :
                 b \in BindingFiles, a \in SeqsUpTo(KconfigOptions, MaxOptions)}

\* the compiler expands the attribute on one item
KconfigExpand ==
    /\ ~kc.done
    /\ kc' = [kc EXCEPT !.done = TRUE, !.emitted = kconfig(kc.attr, kc.bindings)]
    /\ UNCHANGED <<fb_update, fdtab, dev_data, wrappers, last, pt, pred, os>>

NextKconfig == KconfigExpand

SpecKconfig == InitKconfig /\ [][NextKconfig]_vars

(* ------------------------------- claims -------------------------------- *)
IsRead == last.op = "read_sample"

\* C1: when the read returns a non-negative byte count other than the size of
\* one TouchSample (0 included), read_sample returns Err(-EIO): never Ok, with
\* whatever part of the buffer the driver filled, and after that one read.
ThmC1 ==
    (IsRead /\ last.ret >= 0 /\ last.ret # SizeOfTouchSample)
        => /\ last.res = [ok |-> FALSE, err |-> -5, val |-> <<>>]
           /\ last.nsys = 1

\* a read of 10 bytes left npoints, id and flags of the driver's record in the
\* buffer and x untouched, and read_sample returned Err(-EIO)
WitC1 ==
    /\ IsRead
    /\ last.ret = 10
    /\ last.dev # <<>>
    /\ last.buf[1].npoints = 2
    /\ last.buf[1].point.flags = 255
    /\ last.buf[1].point.x = 0
    /\ last.dev[1].point.x = -32768
    /\ ~last.res.ok
    /\ last.res.err = -5

CexC3 ==
    (IsRead /\ last.nodata)
        => /\ last.res.ok
           /\ last.res.val[1].npoints = 0

\* C4: when the read returns a negative value, read_sample returns Err with
\* exactly that value and no sample.
ThmC4 ==
    (IsRead /\ last.ret < 0)
        => last.res = [ok |-> FALSE, err |-> last.ret, val |-> <<>>]

\* the read failed with -1 while the driver held a record
WitC4 ==
    /\ IsRead
    /\ ~last.nodata
    /\ last.ret = -1
    /\ last.res = [ok |-> FALSE, err |-> -1, val |-> <<>>]

AllPredicatesFalse(p) ==
    /\ ~is_pos_valid(p) /\ ~is_touch_down(p) /\ ~is_touch_move(p) /\ ~is_touch_up(p)
    /\ ~is_id_valid(p) /\ ~is_pressure_valid(p) /\ ~is_size_valid(p)
    /\ ~is_gesture_valid(p)

\* C5: when the read returns exactly the record size, read_sample returns Ok
\* with the record the driver wrote, every field as written; for the all-zero
\* record that is npoints = 0 and a default point with every predicate false.
ThmC5 ==
    (IsRead /\ last.ret = SizeOfTouchSample)
        => /\ last.res.ok
           /\ last.res.val = last.dev
           /\ (\A f \in DOMAIN last.dev[1].point :
                  last.dev[1].npoints = 0 /\ last.dev[1].point[f] = 0)
                => /\ last.res.val[1].npoints = 0
                   /\ last.res.val[1].point = TouchPointDefault
                   /\ AllPredicatesFalse(last.res.val[1].point)

\* a full read of the two-point record with negative coordinates
WitC5 ==
    /\ IsRead
    /\ last.ret = SizeOfTouchSample
    /\ last.res.ok
    /\ last.res.val[1].npoints = 2
    /\ last.res.val[1].point.x = -32768
    /\ last.res.val[1].point.w = -1
    /\ last.res.val[1].point.pressure = 65535

\* the bit each predicate is documented to test
DesignatedBit(name) ==
    CASE name = "is_touch_down" -> 0
      [] name = "is_touch_move" -> 1
      [] name = "is_touch_up" -> 2
      [] name = "is_id_valid" -> 3
      [] name = "is_pos_valid" -> 4
      [] name = "is_pressure_valid" -> 5
      [] name = "is_size_valid" -> 6
      [] name = "is_gesture_valid" -> 7

RECURSIVE Pow2(_)
Pow2(k) == IF k = 0 THEN 1 ELSE 2 * Pow2(k - 1)

BitSet(f, k) == (f \div Pow2(k)) % 2 = 1

\* C6: for every flag byte each predicate returns true iff its designated bit
\* is set, whatever the other bits, and calling it leaves the point unchanged.
ThmC6 ==
    /\ [](pred.name # "none" => (pred.result <=> BitSet(pt.flags, DesignatedBit(pred.name))))
    /\ [][pt' = pt]_vars

\* is_pos_valid returned true on a byte whose other bits are all clear
WitC6 ==
    /\ pred.name = "is_pos_valid"
    /\ pt.flags = 16
    /\ pred.result

WasConstructed(t) == wrappers[t].own # "none"

\* C7: close is called exactly once on each value constructed: not before its
\* release, once from its release on, also when an explicit release is
\* followed by the end of the owner's scope.
ThmC7 ==
    \A t \in Types :
        WasConstructed(t)
            => /\ wrappers[t].own = "live" => wrappers[t].closes = 0
               /\ wrappers[t].own \in {"moved", "ended"} => wrappers[t].closes = 1

\* a TouchScreen released explicitly whose owner's scope then ended
WitC7 ==
    /\ last.op = "scope_end"
    /\ last.type = "TouchScreen"
    /\ wrappers["TouchScreen"].own = "ended"
    /\ wrappers["TouchScreen"].closes = 1

IsOpen(w) == w.own = "live" /\ w.closes = 0
IsClosed(w) == w.own \in {"moved", "ended"} /\ w.closes > 0

\* C8: a constructed value is Open or Closed; it becomes Closed only by a
\* drop, and once Closed it stays Closed with no further read, ioctl or close
\* issued through it.
ThmC8 ==
    /\ [](\A t \in Types :
             WasConstructed(t)
                => /\ IsOpen(wrappers[t]) \/ IsClosed(wrappers[t])
                   /\ IsOpen(wrappers[t]) => wrappers[t].fd \in fdtab
                   /\ wrappers[t].after = 0)
    /\ [][\A t \in Types :
             wrappers'[t].gen = wrappers[t].gen
                => /\ (IsOpen(wrappers[t]) /\ ~IsOpen(wrappers'[t]))
                        => /\ IsClosed(wrappers'[t])
                           /\ last'.op = "drop"
                           /\ last'.type = t
                   /\ IsClosed(wrappers[t])
                        => /\ IsClosed(wrappers'[t])
                           /\ wrappers'[t].closes = wrappers[t].closes
                           /\ wrappers'[t].after = wrappers[t].after]_vars

\* the FrameBuffer goes on issuing calls after the TouchScreen was closed
WitC8 ==
    /\ IsClosed(wrappers["TouchScreen"])
    /\ IsOpen(wrappers["FrameBuffer"])
    /\ last.op = "get_video_info"
    /\ last.fd = wrappers["TouchScreen"].fd

IsOpenCall == last.op \in {"TouchScreen::open", "FrameBuffer::new"}

\* C9: TouchScreen::open and FrameBuffer::new return Err with the value open
\* returned when it is negative, and otherwise a wrapper holding exactly the
\* descriptor open returned.
ThmC9 ==
    IsOpenCall
        => /\ last.ret < 0 => last.res = [ok |-> FALSE, err |-> last.ret, val |-> <<>>]
           /\ last.res.ok <=> last.ret >= 0
           /\ last.res.ok
                => /\ last.res.val[1].fd = last.ret
                   /\ wrappers[last.type].own = "live"
                   /\ wrappers[last.type].fd = last.ret

\* TouchScreen::open got descriptor 0 and returned a wrapper holding it
WitC9 ==
    /\ last.op = "TouchScreen::open"
    /\ last.ret = 0
    /\ last.res.ok
    /\ wrappers["TouchScreen"].fd = 0

ThmC11 ==
    (last.op = "update_area" /\ ~fb_update)
        => /\ last.res = [ok |-> TRUE, err |-> 0, val |-> <<"()">>]
           /\ last.nsys = 0
           /\ last.cmd = 0

\* update_area without fb_update, given an Area with the largest height
WitC11 ==
    /\ ~fb_update
    /\ last.op = "update_area"
    /\ last.buf = <<[x |-> 10, y |-> 20, w |-> 300, h |-> 65535]>>
    /\ last.res.ok
    /\ last.nsys = 0

FbOps == {"get_video_info", "get_plane_info", "update_area"}

\* what a framebuffer operation returns for the driver's answer alone
FbAnswer(op, ret, dev, buf) ==
    IF op = "update_area" /\ ~fb_update THEN [ok |-> TRUE, err |-> 0, val |-> <<"()">>]
    ELSE IF ret < 0 THEN [ok |-> FALSE, err |-> ret, val |-> <<>>]
    ELSE IF op = "update_area" THEN [ok |-> TRUE, err |-> 0, val |-> <<"()">>]
    ELSE [ok |-> TRUE, err |-> 0, val |-> dev]

\* C12: while a FrameBuffer is open each of get_video_info, get_plane_info and
\* update_area can be called, whatever was called before; a call leaves the
\* value with its owner, holding the same descriptor, and its result is
\* decided by the driver's answer to that call alone.
ThmC12 ==
    /\ [](IsOpen(wrappers["FrameBuffer"])
            => /\ ENABLED get_video_info
               /\ ENABLED get_plane_info
               /\ ENABLED update_area \/ ENABLED update_area_off)
    /\ [][(last'.op \in FbOps /\ last' # last)
            => /\ wrappers'["FrameBuffer"].gen = wrappers["FrameBuffer"].gen
               /\ wrappers'["FrameBuffer"].own = wrappers["FrameBuffer"].own
               /\ wrappers'["FrameBuffer"].fd = wrappers["FrameBuffer"].fd
               /\ wrappers'["FrameBuffer"].closes = wrappers["FrameBuffer"].closes
               /\ fdtab' = fdtab
               /\ last'.res = FbAnswer(last'.op, last'.ret, last'.dev, last'.buf)]_vars

\* a successful get_plane_info on a FrameBuffer that is still open and holds
\* the descriptor the call was issued on
WitC12 ==
    /\ last.op = "get_plane_info"
    /\ last.res.ok
    /\ last.res.val[1].fblen = 153600
    /\ IsOpen(wrappers["FrameBuffer"])
    /\ wrappers["FrameBuffer"].fd = last.fd

\* the bindings define NAME as enabled: a const NAME set to 1
DefinedAsOne(bindings, name) ==
    \E i \in DOMAIN bindings :
        /\ bindings[i].item = "const"
        /\ bindings[i].name = name
        /\ bindings[i].lit = "int"
        /\ bindings[i].value = 1

\* NAME is undefined in the bindings (a disabled option has no const)
Undefined(bindings, name) ==
    \A i \in DOMAIN bindings : ~(bindings[i].item = "const" /\ bindings[i].name = name)

ConditionMet(bindings, option) ==
    IF option.value = "y" THEN DefinedAsOne(bindings, option.name)
    ELSE Undefined(bindings, option.name)

\* C13: the decorated item is emitted iff every listed condition is met, where
\* NAME = "y" is met only when the bindings define NAME as 1 and NAME = "n"
\* only when NAME is disabled or undefined.
CexC13 ==
    kc.done
        => (kc.emitted <=> \A i \in DOMAIN kc.attr : ConditionMet(kc.bindings, kc.attr[i]))

\* the command code each device-control operation is documented to carry
CommandCode(op) ==
    CASE op = "get_video_info" -> 10241
      [] op = "get_plane_info" -> 10242
      [] op = "update_area" -> 10247
      [] OTHER -> 0

\* C14: a call of read_sample, get_video_info, get_plane_info or (with
\* fb_update) update_area issues exactly one system call, on the descriptor
\* the wrapper holds, whether it succeeds or fails; the three device-control
\* operations carry 0x2801, 0x2802 and 0x2807.
ThmC14 ==
    (last.op = "read_sample" \/ (last.op \in FbOps /\ (last.op = "update_area" => fb_update)))
        => /\ last.nsys = 1
           /\ last.fd = wrappers[last.type].fd
           /\ last.fd >= 0
           /\ last.cmd = CommandCode(last.op)

\* a get_plane_info that failed after its one ioctl with code 0x2802
WitC14 ==
    /\ last.op = "get_plane_info"
    /\ last.ret < 0
    /\ ~last.res.ok
    /\ last.nsys = 1
    /\ last.cmd = 10242

\* C15: a failed open constructs no wrapper and leads to no close: close is
\* only ever called on a descriptor that is open, one a successful open
\* returned, and there are never more close calls than successful opens.
ThmC15 ==
    /\ ~os.bad
    /\ os.closes <= os.opens
    /\ (IsOpenCall /\ last.ret < 0)
         => /\ ~last.res.ok
            /\ last.nsys = 1
            /\ wrappers[last.type].own # "live"
    /\ \A t \in Types : WasConstructed(t) => wrappers[t].fd >= 0

\* an open failed after one wrapper had been opened and closed: still one
\* close for one successful open
WitC15 ==
    /\ IsOpenCall
    /\ last.ret < 0
    /\ os.opens = 1
    /\ os.closes = 1
    /\ \E t \in Types : wrappers[t].own = "ended"
====
